---- MODULE Spec2Model ----
(***************************************************************************)
(* Model of the Kismet REST client (KismetRest.py, class KismetConnector). *)
(*                                                                         *)
(* One client instance performs one public call at a time.  A call walks   *)
(* through the positions of the Python code:                               *)
(*   idle -> request -> update -> stream | object -> return -> done        *)
(* The server (status, Set-Cookie, body lines), the file system (cache     *)
(* file write failures) and the caller's callback (may raise) are the      *)
(* environment and are chosen nondeterministically.                        *)
(***************************************************************************)
EXTENDS Integers, Sequences, FiniteSets, TLC

\* ------------------------------------------------------------------ bounds
MaxLines == 3       \* longest ekjson body (number of lines) the server sends
MaxTries == 8       \* outer-loop iterations of capture.main that are explored
MaxCookieLen == 3   \* longest cookie (in bytes) in the shared-cache-path scenario

\* -------------------------------------------------------- program constants
NetFailCode == 0 - 1          \* rcode of "Failed to get object"
LoginStatus == 401
HealthAttempts == 10          \* range(10) in check_kismet_running
RetryLimit == 5               \* "if tries > 5" in main
QueriesPerRound == 6          \* smart_device_list calls made for one data dict
OkStatus == 200
ReadTimeout == 60
PostJsonTimeout == 2

\* ------------------------------------------------------------- value sets
NoCookie == "<none>"          \* no KISMET cookie / no cache file
Cookies == {"", "k1", "k2"}   \* cookie values; "" is the empty cookie
Statuses == {200, 401, 404, 500}

\* Raw body lines (bytes on the wire) and the Python values they decode to.
ValidLines == {"{\"a\":1}", "[1,2]", "null"}
BadLine == "{bad"
Lines == ValidLines \cup {BadLine}
None == "None"                \* Python None
ParseError == "<ValueError>"  \* json.loads raised

\* json.loads(j.decode('utf-8')) on the raw lines above.
JsonLoads(j) ==
    CASE j = "{\"a\":1}" -> "dict(a=1)"
      [] j = "[1,2]"     -> "list(1,2)"
      [] j = "null"      -> None
      [] OTHER           -> ParseError

\* The local variable r of __process_json_stream first holds the response.
Response == "<Response>"

\* Exceptions that can leave a call.
NoExc == "none"
KismetRequestException == "KismetRequestException"
KismetLoginException == "KismetLoginException"
AttributeError == "AttributeError"
RequestsException == "requests.RequestException"
CallbackError == "CallbackError"

\* Optional list arguments (fields, regex, ts): Python None, or a list.
NoArg == [none |-> TRUE, v |-> <<>>]
ListArg(l) == [none |-> FALSE, v |-> l]
ListArgs == {NoArg, ListArg(<<>>), ListArg(<<"x">>)}
TsArgs == {NoArg, ListArg(<<"5">>)}

\* ------------------------------------------------------------ JSON output
\* json.dumps output is modelled as a token sequence: punctuation and
\* quoted strings / scalars.
P(c) == [t |-> "p", s |-> c]
S(c) == [t |-> "str", s |-> c]

RECURSIVE DumpItems(_)
DumpItems(l) ==
    IF l = <<>> THEN <<>>
    ELSE IF Len(l) = 1 THEN <<S(l[1])>>
    ELSE <<S(l[1]), P(",")>> \o DumpItems(Tail(l))

\* json.dumps of a Python list of strings.
DumpList(l) == <<P("[")>> \o DumpItems(l) \o <<P("]")>>

\* json.dumps of one cmd value: a list or a scalar.
DumpValue(val) == IF val.list THEN DumpList(val.v) ELSE <<S(val.v[1])>>

RECURSIVE DumpPairs(_)
DumpPairs(cmd) ==
    IF cmd = <<>> THEN <<>>
    ELSE LET kv == cmd[1]
             one == <<S(kv.k), P(":")>> \o DumpValue(kv)
         IN IF Len(cmd) = 1 THEN one
            ELSE one \o <<P(",")>> \o DumpPairs(Tail(cmd))

\* json.dumps(postdata) for a dict kept in insertion order.
JsonDumps(cmd) == <<P("{")>> \o DumpPairs(cmd) \o <<P("}")>>

\* cmd[key] = list argument / cmd[key] = scalar
KvList(key, arg) == [k |-> key, list |-> TRUE, v |-> arg.v]
KvScalar(key, tok) == [k |-> key, list |-> FALSE, v |-> <<tok>>]

\* Variant: "if arg: cmd[key] = arg" (truthiness).
OptList_truthy(key, arg) ==
    IF arg.none \/ arg.v = <<>> THEN <<>> ELSE <<KvList(key, arg)>>

\* "if arg is not None: cmd[key] = arg"
OptList(key, arg) == IF arg.none THEN <<>> ELSE <<KvList(key, arg)>>
OptScalar(key, arg) == IF arg.none THEN <<>> ELSE <<KvScalar(key, arg.v[1])>>

\* --------------------------------------------------------- endpoint facade
\* Public operations, grouped by the shape of their code.  The deprecated
\* aliases (device_summary, device_summary_since, smart_summary_since,
\* device, device_field) only forward to one of these.
SessionOps == {"login", "check_session"}
StreamOps == {"device_list", "smart_device_list", "device_list_by_mac",
              "dot11_clients_of", "dot11_access_points"}
SingleOps == {"system_status", "device_by_key", "device_by_mac", "datasources",
              "datasource_list_interfaces", "alerts", "messages", "location"}
CmdOps == {"config_datasource_set_channel", "config_datasource_set_hop_rate",
           "config_datasource_set_hop_channels", "config_datasource_set_hop",
           "add_datasource", "define_alert", "raise_alert"}
\* The transport helpers, called directly with free stream/callback/postdata.
JsonHelperOps == {"__get_json_url", "__post_json_url"}
StringHelperOps == {"__get_string_url", "__post_string_url"}
Ops == SessionOps \cup StreamOps \cup SingleOps \cup CmdOps
           \cup JsonHelperOps \cup StringHelperOps

\* Which optional arguments an operation takes.
FieldsOps == {"smart_device_list", "device_list_by_mac", "dot11_clients_of",
              "dot11_access_points", "device_by_key", "device_by_mac"}
RegexOps == {"smart_device_list", "dot11_access_points"}
TsOps == {"dot11_access_points"}
CallbackOps == StreamOps \cup JsonHelperOps

\* cmd built by smart_device_list
smart_device_list_cmd(f, rx) == OptList("fields", f) \o OptList("regex", rx)

\* cmd built by dot11_access_points
dot11_access_points_cmd(t, rx, f) ==
    OptScalar("last_time", t) \o OptList("regex", rx) \o OptList("fields", f)

\* cmd built by device_list_by_mac (maclist is the fixed list ["m"])
device_list_by_mac_cmd(f) ==
    OptList("fields", f) \o <<KvList("devices", ListArg(<<"m">>))>>

\* cmd built by dot11_clients_of
dot11_clients_of_cmd(f) == OptList("fields", f)

\* cmd built by device_by_key / device_by_mac when fields is given
device_by_cmd(f) == <<KvList("fields", f)>>

\* cmd built by the *.cmd operations (argument values are fixed tokens)
command_cmd(o) ==
    CASE o = "config_datasource_set_channel" -> <<KvScalar("channel", "6")>>
      [] o = "config_datasource_set_hop_rate" -> <<KvScalar("rate", "5")>>
      [] o = "config_datasource_set_hop_channels" ->
             <<KvScalar("rate", "5"), KvList("channels", ListArg(<<"1">>))>>
      [] o = "config_datasource_set_hop" -> <<KvScalar("hop", "true")>>
      [] o = "add_datasource" -> <<KvScalar("definition", "wlan0")>>
      [] o = "define_alert" ->
             <<KvScalar("name", "n"), KvScalar("description", "d"),
               KvScalar("throttle", "10/min"), KvScalar("burst", "1/sec")>>
      [] o = "raise_alert" -> <<KvScalar("name", "n"), KvScalar("text", "t")>>

\* postdata handed to the POST helpers; none = Python None.
NoPostData == [none |-> TRUE, cmd |-> <<>>]
Dict(c) == [none |-> FALSE, cmd |-> c]

PostData(o, f, rx, t) ==
    CASE o = "smart_device_list" -> Dict(smart_device_list_cmd(f, rx))
      [] o = "dot11_access_points" -> Dict(dot11_access_points_cmd(t, rx, f))
      [] o = "device_list_by_mac" -> Dict(device_list_by_mac_cmd(f))
      [] o = "dot11_clients_of" -> Dict(dot11_clients_of_cmd(f))
      [] o \in {"device_by_key", "device_by_mac"} /\ ~f.none -> Dict(device_by_cmd(f))
      [] o \in CmdOps -> Dict(command_cmd(o))
      [] OTHER -> NoPostData

\* The transport helper an operation goes through.
Transport(o, f) ==
    CASE o \in SessionOps -> o
      [] o \in {"device_list", "__get_json_url"} -> "get_json"
      [] o \in {"device_by_key", "device_by_mac"} ->
             IF f.none THEN "get_json" ELSE "post_json"
      [] o \in SingleOps -> "get_json"
      [] o \in StreamOps \/ o = "__post_json_url" -> "post_json"
      [] o \in CmdOps \/ o = "__post_string_url" -> "post_string"
      [] o = "__get_string_url" -> "get_string"

\* ------------------------------------------------------------------ state
VARIABLES
    file,       \* content of the session cache file, or NoFile
    jar,        \* session.cookies: KISMET cookie loaded from the file (domain
                \* "") and KISMET cookie set by the server (server domain)
    pc,         \* position of the current call
    op,         \* operation being executed
    stream,     \* stream argument of the json helpers
    callback,   \* TRUE iff the caller supplied a callback
    fields,     \* fields argument
    regex,      \* regex argument
    ts,         \* ts argument (dot11_access_points)
    postdata,   \* postdata given to the POST helpers
    posted,     \* form field "json" of the request sent (token sequence)
    method,     \* "GET" / "POST" of the request sent, "" if none
    timeout,    \* timeout of the request sent, 0 if none
    nreq,       \* number of HTTP requests issued by this call
    status,     \* status code of the response, 0 if no response
    setcookie,  \* KISMET cookie set by the response, NoCookie if none
    file0,      \* content of the cache file when the call started
    wrote,      \* what __update_session did to the file in this call
    r,          \* local variable r of __process_json_stream
    body,       \* lines of the body consumed so far
    ret,        \* list accumulated by the decoder
    cblog,      \* objects the callback was invoked with, in order
    cbraise,    \* TRUE iff the callback raised
    raised,     \* exception that left the call, NoExc if none
    rcode,      \* rcode carried by the exception, 0 if none
    result,     \* value returned to the caller
    sessioncache, \* what set_session_cache found at construction:
                \* "nofile", "loaded" or "unreadable"
    \* --- capture.main (orchestration script)
    mpc,        \* position in main, "off" when main is not running
    tries,      \* local variable tries of main
    hc,         \* iterations done by check_kismet_running's loop
    qi,         \* number of queries completed in the current polling round
    connected,  \* result of check_connection in the current polling round
    mexc,       \* exception that propagated out of main, NoExc if none
    okstarts,   \* number of daemon starts whose health check succeeded
    iters,      \* number of outer-loop iterations started
    \* --- two clients persisting to the same cache path
    disk,       \* bytes of the cache file
    wpc,        \* position of each writer in open / write / close
    wcookie     \* cookie each writer persists

persistent == <<file, jar>>
callvars == <<op, stream, callback, fields, regex, ts, postdata>>
reqvars == <<posted, method, timeout, nreq, status, setcookie>>
decvars == <<r, body, ret, cblog, cbraise>>
outvars == <<raised, rcode, result>>
vars == <<file, jar, pc, op, stream, callback, fields, regex, ts, postdata,
          posted, method, timeout, nreq, status, setcookie, file0, wrote,
          r, body, ret, cblog,
          cbraise, raised, rcode, result, sessioncache,
          mpc, tries, hc, qi, connected, mexc, okstarts, iters,
          disk, wpc, wcookie>>
clientvars == <<file, jar, pc, op, stream, callback, fields, regex, ts, postdata,
                posted, method, timeout, nreq, status, setcookie, file0, wrote,
                r, body, ret, cblog, cbraise, raised, rcode, result,
                sessioncache>>
mainvars == <<mpc, tries, hc, qi, connected, mexc, okstarts, iters>>
racevars == <<disk, wpc, wcookie>>
\* What a call of the client leaves alone besides its own variables.
othervars == <<sessioncache, mainvars, racevars>>

\* The two client processes of the shared-cache-path scenario.
Writers == {1, 2}

\* capture.main is not running / no concurrent writers are active.
MainOff ==
    /\ mpc = "off" /\ tries = 0 /\ hc = 0 /\ qi = 0 /\ connected = FALSE
    /\ mexc = NoExc /\ okstarts = 0 /\ iters = 0
RaceOff ==
    /\ disk = <<>>
    /\ wpc = [w \in Writers |-> "off"]
    /\ wcookie = [w \in Writers |-> <<>>]

NoFile == "<nofile>"
NoResult == [kind |-> "none", list |-> <<>>, obj |-> ""]
ListResult(l) == [kind |-> "list", list |-> l, obj |-> ""]
ObjResult(o) == [kind |-> "obj", list |-> <<>>, obj |-> o]
BoolResult(b) == [kind |-> "bool", list |-> <<>>, obj |-> IF b THEN "True" ELSE "False"]
ContentResult == [kind |-> "content", list |-> <<>>, obj |-> "<content>"]

\* ---------------------------------------------------------- session store
\* set_session_cache: the cookie added to a fresh jar from the cache file.
cache_outcome(f, readable) ==
    IF f = NoFile THEN "nofile" ELSE IF readable THEN "loaded" ELSE "unreadable"

set_session_cache(f, readable) ==
    [loaded |-> IF f # NoFile /\ readable THEN f ELSE NoCookie,
     server |-> NoCookie]

\* Variant: the first cookie of that name wins.
dict_from_cookiejar_first_wins(j) == IF j.loaded # NoCookie THEN j.loaded ELSE j.server

\* requests.utils.dict_from_cookiejar(...)["KISMET"]: the jar is iterated in
\* insertion order and the last cookie of that name wins; NoCookie stands
\* for KeyError.
dict_from_cookiejar(j) == IF j.server # NoCookie THEN j.server ELSE j.loaded

\* The session stores the Set-Cookie of every response it receives.
extract_cookies(j, sc) == IF sc = NoCookie THEN j ELSE [j EXCEPT !.server = sc]

\* __update_session: does it open the cache file for writing?
update_session_writes(cookie) == cookie # NoCookie /\ Len(cookie) # 0

\* State of a call that has not started.
CallReset ==
    /\ op = "" /\ stream = FALSE /\ callback = FALSE
    /\ fields = NoArg /\ regex = NoArg /\ ts = NoArg /\ postdata = NoPostData
    /\ posted = <<>> /\ method = "" /\ timeout = 0 /\ nreq = 0 /\ status = 0
    /\ setcookie = NoCookie
    /\ file0 = file /\ wrote = "no" /\ r = Response /\ body = <<>> /\ ret = <<>>
    /\ cblog = <<>> /\ cbraise = FALSE
    /\ raised = NoExc /\ rcode = 0 /\ result = NoResult

\* After construction: __init__ has run set_session_cache on whatever the
\* cache path holds.
Init ==
    /\ file \in {NoFile} \cup Cookies
    /\ \E readable \in BOOLEAN :
         /\ jar = set_session_cache(file, readable)
         /\ sessioncache = cache_outcome(file, readable)
    /\ pc = "idle"
    /\ CallReset
    /\ MainOff
    /\ RaceOff

\* A fresh call: every call-local variable at its initial value.
ResetCall ==
    /\ op' = "" /\ stream' = FALSE /\ callback' = FALSE
    /\ fields' = NoArg /\ regex' = NoArg /\ ts' = NoArg /\ postdata' = NoPostData
    /\ posted' = <<>> /\ method' = "" /\ timeout' = 0 /\ nreq' = 0 /\ status' = 0
    /\ setcookie' = NoCookie
    /\ file0' = file' /\ wrote' = "no" /\ r' = Response /\ body' = <<>> /\ ret' = <<>>
    /\ cblog' = <<>> /\ cbraise' = FALSE
    /\ raised' = NoExc /\ rcode' = 0 /\ result' = NoResult

\* KismetConnector(...): a new client object replaces the old one; its jar
\* holds only what the cache file gave (nothing if it cannot be read).
KismetConnector_init ==
    /\ pc = "idle"
    /\ \E readable \in BOOLEAN :
         /\ jar' = set_session_cache(file, readable)
         /\ sessioncache' = cache_outcome(file, readable)
    /\ UNCHANGED <<file, pc, mainvars, racevars>>
    /\ ResetCall

\* Another client instance sharing the cache path persists its cookie
\* between two calls of this client.
OtherClientSaves ==
    /\ pc = "idle"
    /\ \E c \in Cookies \ {""} : file' = c
    /\ UNCHANGED <<jar, pc, othervars>>
    /\ ResetCall

\* The caller invokes a public operation (or a transport helper) with
\* arguments drawn from the small sets above.
Call ==
    /\ pc = "idle"
    /\ \E o \in Ops :
         \E st \in (IF o \in JsonHelperOps THEN BOOLEAN ELSE {o \in StreamOps}) :
          \E cb \in (IF o \in CallbackOps THEN BOOLEAN ELSE {FALSE}) :
           \E f \in (IF o \in FieldsOps THEN ListArgs ELSE {NoArg}) :
            \E rx \in (IF o \in RegexOps THEN ListArgs ELSE {NoArg}) :
             \E t \in (IF o \in TsOps THEN TsArgs ELSE {NoArg}) :
              \E pd \in (IF o \in {"__post_json_url", "__post_string_url"}
                          THEN {NoPostData, Dict(<<>>)}
                          ELSE {PostData(o, f, rx, t)}) :
                /\ op' = o /\ stream' = st /\ callback' = cb
                /\ fields' = f /\ regex' = rx /\ ts' = t /\ postdata' = pd
    /\ pc' = "request"
    /\ file0' = file
    /\ UNCHANGED <<persistent, reqvars, wrote, decvars, outvars, othervars>>

\* An exception leaves the call.
Raise(exc, code) ==
    /\ raised' = exc /\ rcode' = code /\ result' = NoResult /\ pc' = "done"

\* Variant: only server errors are treated as failed requests.
status_exception_5xx_only(st) ==
    IF st = LoginStatus THEN KismetLoginException
    ELSE IF st >= 500 THEN KismetRequestException
    ELSE NoExc

\* Variant: the generic non-200 test comes before the 401 test.
status_exception_generic_first(st) ==
    IF ~(st = OkStatus) THEN KismetRequestException
    ELSE IF st = LoginStatus THEN KismetLoginException
    ELSE NoExc

\* Classification of a response status by the four transport helpers:
\* the exception raised for it, NoExc for 200.
status_exception(st) ==
    IF st = LoginStatus THEN KismetLoginException
    ELSE IF ~(st = OkStatus) THEN KismetRequestException
    ELSE NoExc

\* The part common to the four helpers after the request was sent: the
\* request either failed in the network (wrapped into
\* KismetRequestException, rcode -1) or a response arrived and is classified.
HelperOutcome ==
    /\ nreq' = nreq + 1
    /\ \/ /\ Raise(KismetRequestException, NetFailCode)
          /\ UNCHANGED <<jar, status, setcookie>>
       \/ \E st \in Statuses, sc \in Cookies \cup {NoCookie} :
            /\ status' = st /\ setcookie' = sc
            /\ jar' = extract_cookies(jar, sc)
            /\ IF status_exception(st) # NoExc
               THEN Raise(status_exception(st), st)
               ELSE pc' = "update" /\ UNCHANGED outvars
    /\ UNCHANGED <<file, file0, callvars, wrote, decvars, othervars>>

\* json.dumps(postdata), or "" when postdata is None
FormJson(pd) == IF ~pd.none THEN JsonDumps(pd.cmd) ELSE <<>>

get_json_url ==
    /\ pc = "request" /\ Transport(op, fields) = "get_json"
    /\ method' = "GET" /\ posted' = <<>> /\ timeout' = ReadTimeout
    /\ HelperOutcome

get_string_url ==
    /\ pc = "request" /\ Transport(op, fields) = "get_string"
    /\ method' = "GET" /\ posted' = <<>> /\ timeout' = ReadTimeout
    /\ HelperOutcome

post_json_url ==
    /\ pc = "request" /\ Transport(op, fields) = "post_json"
    /\ method' = "POST" /\ posted' = FormJson(postdata) /\ timeout' = PostJsonTimeout
    /\ HelperOutcome

post_string_url ==
    /\ pc = "request" /\ Transport(op, fields) = "post_string"
    /\ method' = "POST" /\ posted' = FormJson(postdata) /\ timeout' = ReadTimeout
    /\ HelperOutcome

\* login and check_session call session.get themselves: no try/except, and
\* any status other than 200 makes them return False.
SessionOutcome ==
    /\ method' = "GET" /\ posted' = <<>> /\ timeout' = ReadTimeout
    /\ nreq' = nreq + 1
    /\ \/ /\ Raise(RequestsException, 0)
          /\ UNCHANGED <<jar, status, setcookie>>
       \/ \E st \in Statuses, sc \in Cookies \cup {NoCookie} :
            /\ status' = st /\ setcookie' = sc
            /\ jar' = extract_cookies(jar, sc)
            /\ IF ~(st = OkStatus)
               THEN /\ result' = BoolResult(FALSE) /\ pc' = "done"
                    /\ UNCHANGED <<raised, rcode>>
               ELSE pc' = "update" /\ UNCHANGED outvars
    /\ UNCHANGED <<file, file0, callvars, wrote, decvars, othervars>>

login ==
    /\ pc = "request" /\ op = "login"
    /\ SessionOutcome

check_session ==
    /\ pc = "request" /\ op = "check_session"
    /\ SessionOutcome

\* Variant: the helper goes on to decode without updating the session
\* first.
update_session_skipped ==
    /\ pc = "update"
    /\ pc' = IF Transport(op, fields) \in {"get_json", "post_json"}
             THEN (IF stream = TRUE THEN "stream" ELSE "object")
             ELSE "return"
    /\ UNCHANGED <<file, wrote, jar, file0, callvars, reqvars, decvars, outvars,
                   othervars>>

\* Variant: only KeyError is caught, so a failing open() or write() leaves
\* the call as OSError.
update_session_raises ==
    /\ pc = "update"
    /\ LET cookie == dict_from_cookiejar(jar)
       IN IF update_session_writes(cookie)
          THEN \/ /\ file' = cookie /\ wrote' = "ok"
                  /\ pc' = IF Transport(op, fields) \in {"get_json", "post_json"}
                           THEN (IF stream = TRUE THEN "stream" ELSE "object")
                           ELSE "return"
                  /\ UNCHANGED outvars
               \/ /\ file' = file /\ wrote' = "openfail" /\ Raise("OSError", 0)
               \/ /\ file' = "" /\ wrote' = "truncated" /\ Raise("OSError", 0)
          ELSE /\ file' = file /\ wrote' = "skipped"
               /\ pc' = IF Transport(op, fields) \in {"get_json", "post_json"}
                        THEN (IF stream = TRUE THEN "stream" ELSE "object")
                        ELSE "return"
               /\ UNCHANGED outvars
    /\ UNCHANGED <<jar, file0, callvars, reqvars, decvars, othervars>>

\* __update_session, called by every helper and by login/check_session on
\* status 200.  A failing open() leaves the file as it was; a failure after
\* open(path, "w") leaves it truncated.  Neither is raised.
update_session ==
    /\ pc = "update"
    /\ LET cookie == dict_from_cookiejar(jar)
       IN IF update_session_writes(cookie)
          THEN \/ file' = cookie /\ wrote' = "ok"
               \/ file' = file /\ wrote' = "openfail"
               \/ file' = "" /\ wrote' = "truncated"
          ELSE file' = file /\ wrote' = "skipped"
    /\ pc' = IF Transport(op, fields) \in {"get_json", "post_json"}
             THEN (IF stream = TRUE THEN "stream" ELSE "object")
             ELSE "return"
    /\ UNCHANGED <<jar, file0, callvars, reqvars, decvars, outvars, othervars>>

\* Variant: the callback is invoked inside the try block, so what it raises
\* is converted into KismetRequestException.
process_json_object_callback_in_try(rr, j, cb, cbr) ==
    LET obj == JsonLoads(j)
    IN IF obj = ParseError
       THEN IF rr = Response
            THEN [exc |-> KismetRequestException, code |-> status,
                  val |-> None, called |-> FALSE, obj |-> None]
            ELSE [exc |-> AttributeError, code |-> 0,
                  val |-> None, called |-> FALSE, obj |-> None]
       ELSE IF cb
            THEN [exc |-> IF cbr THEN KismetRequestException ELSE NoExc,
                  code |-> IF cbr THEN status ELSE 0,
                  val |-> None, called |-> TRUE, obj |-> obj]
            ELSE [exc |-> NoExc, code |-> 0,
                  val |-> obj, called |-> FALSE, obj |-> obj]

\* Variant: the callback branch is taken whether or not a callback was given
\* (the decoded object is never returned).
process_json_object_no_return(rr, j, cb, cbr) ==
    LET obj == JsonLoads(j)
    IN IF obj = ParseError
       THEN IF rr = Response
            THEN [exc |-> KismetRequestException, code |-> status,
                  val |-> None, called |-> FALSE, obj |-> None]
            ELSE [exc |-> AttributeError, code |-> 0,
                  val |-> None, called |-> FALSE, obj |-> None]
       ELSE [exc |-> IF cb /\ cbr THEN CallbackError ELSE NoExc, code |-> 0,
             val |-> None, called |-> cb, obj |-> obj]

\* __process_json_object(r, j, callback, args): the outcome for one raw
\* document j.  rr is the value bound to the parameter r; cbr tells whether
\* the caller's callback raises when invoked.
\*   exc, code : exception raised (NoExc if none) and its rcode
\*   val       : value returned
\*   called    : TRUE iff the callback was invoked with the decoded object
process_json_object(rr, j, cb, cbr) ==
    LET obj == JsonLoads(j)
    IN IF obj = ParseError
       THEN IF rr = Response
            THEN [exc |-> KismetRequestException, code |-> status,
                  val |-> None, called |-> FALSE, obj |-> None]
            ELSE \* r.url on a decoded object or on None
                 [exc |-> AttributeError, code |-> 0,
                  val |-> None, called |-> FALSE, obj |-> None]
       ELSE IF cb
            THEN [exc |-> IF cbr THEN CallbackError ELSE NoExc, code |-> 0,
                  val |-> None, called |-> TRUE, obj |-> obj]
            ELSE [exc |-> NoExc, code |-> 0,
                  val |-> obj, called |-> FALSE, obj |-> obj]

\* Variant: "if r is not None".
stream_appends_r_not_none(rt, rv) == rv # None

\* The test guarding ret.append(r) in __process_json_stream.
stream_appends(rt, rv) == TRUE      \* "if ret is not None" with ret a list

\* One iteration of "for line in r.iter_lines()" in __process_json_stream.
process_json_stream_line ==
    /\ pc = "stream"
    /\ Len(body) < MaxLines
    /\ \E j \in Lines, cbr \in BOOLEAN :
         LET o == process_json_object(r, j, callback, cbr)
         IN /\ body' = Append(body, j)
            /\ cblog' = IF o.called THEN Append(cblog, o.obj) ELSE cblog
            /\ cbraise' = (o.called /\ cbr)
            /\ IF o.exc # NoExc
               THEN Raise(o.exc, o.code) /\ UNCHANGED <<r, ret>>
               ELSE /\ r' = o.val
                    /\ ret' = IF stream_appends(ret, o.val) THEN Append(ret, o.val) ELSE ret
                    /\ UNCHANGED <<pc, outvars>>
    /\ UNCHANGED <<persistent, file0, callvars, reqvars, wrote, othervars>>

\* iter_lines() is exhausted: __process_json_stream returns ret.
process_json_stream_end ==
    /\ pc = "stream"
    /\ pc' = "return"
    /\ UNCHANGED <<persistent, file0, callvars, reqvars, wrote, decvars, outvars,
                   othervars>>

\* Non-stream mode: [self.__process_json_object(r, r.content, callback, cbargs)]
process_json_content ==
    /\ pc = "object"
    /\ \E j \in Lines, cbr \in BOOLEAN :
         LET o == process_json_object(Response, j, callback, cbr)
         IN /\ body' = <<j>>
            /\ cblog' = IF o.called THEN Append(cblog, o.obj) ELSE cblog
            /\ cbraise' = (o.called /\ cbr)
            /\ IF o.exc # NoExc
               THEN Raise(o.exc, o.code) /\ UNCHANGED <<r, ret>>
               ELSE /\ ret' = <<o.val>>
                    /\ pc' = "return"
                    /\ UNCHANGED <<r, outvars>>
    /\ UNCHANGED <<persistent, file0, callvars, reqvars, wrote, othervars>>

\* Variant: the single-entity lookups return v instead of v[0].
facade_result_no_unwrap(o, st, v) ==
    CASE o \in SessionOps -> BoolResult(TRUE)
      [] o \in StreamOps -> ListResult(v)
      [] o \in SingleOps -> ListResult(v)
      [] o \in CmdOps -> BoolResult(st = OkStatus)
      [] o \in JsonHelperOps -> ListResult(v)
      [] o \in StringHelperOps -> ContentResult

\* What the public operation hands back once its helper has returned
\* (status, v).
facade_result(o, st, v) ==
    CASE o \in SessionOps -> BoolResult(TRUE)
      [] o \in StreamOps -> ListResult(v)
      [] o \in SingleOps -> ObjResult(v[1])
      [] o \in CmdOps -> BoolResult(st = OkStatus)
      [] o \in JsonHelperOps -> ListResult(v)
      [] o \in StringHelperOps -> ContentResult

Return ==
    /\ pc = "return"
    /\ result' = facade_result(op, status, ret)
    /\ pc' = "done"
    /\ UNCHANGED <<persistent, file0, callvars, reqvars, wrote, decvars, raised, rcode,
                   othervars>>

\* The caller has looked at the outcome; the client is ready for a new call.
Finish ==
    /\ pc = "done"
    /\ pc' = "idle"
    /\ UNCHANGED <<persistent, othervars>>
    /\ ResetCall

Next ==
    \/ KismetConnector_init
    \/ OtherClientSaves
    \/ Call
    \/ get_json_url
    \/ get_string_url
    \/ post_json_url
    \/ post_string_url
    \/ login
    \/ check_session
    \/ update_session
    \/ process_json_stream_line
    \/ process_json_stream_end
    \/ process_json_content
    \/ Return
    \/ Finish

Spec == Init /\ [][Next]_vars

\* ============================================================ capture.main
\* The orchestration script: restart the daemon, wait for it to answer,
\* then poll it every five minutes.  Each query is a smart_device_list call
\* of a fresh client; its outcome is what that call can raise, or TypeError
\* when the script's own filtering meets an element that is not a record.
QueryOutcomes == {NoExc, KismetRequestException, KismetLoginException,
                  AttributeError, "TypeError"}

\* The client-side variables are not used while main is modelled.
ClientIdle ==
    /\ file = NoFile /\ jar = set_session_cache(NoFile, FALSE)
    /\ sessioncache = "nofile" /\ pc = "idle" /\ CallReset

InitMain ==
    /\ ClientIdle
    /\ RaceOff
    /\ mpc = "loop" /\ tries = 0 /\ hc = 0 /\ qi = 0 /\ connected = FALSE
    /\ mexc = NoExc /\ okstarts = 0 /\ iters = 0

\* An exception propagates out of main: the program ends with a traceback.
MainCrash(exc) == mpc' = "crashed" /\ mexc' = exc

\* Top of the outer loop: kill the daemon, tries += 1.
main_loop ==
    /\ mpc = "loop"
    /\ tries < MaxTries
    /\ tries' = tries + 1
    /\ iters' = iters + 1
    /\ mpc' = "ifaces"
    /\ UNCHANGED <<hc, qi, connected, mexc, okstarts, clientvars, racevars>>

\* Interface lookup: a missing capture or connect interface raises.
main_ifaces ==
    /\ mpc = "ifaces"
    /\ \/ mpc' = "daemon" /\ UNCHANGED mexc
       \/ MainCrash("Exception")
    /\ UNCHANGED <<tries, hc, qi, connected, okstarts, iters, clientvars, racevars>>

\* subprocess.run(kismet_server ...), then check_kismet_running() is entered.
main_start_daemon ==
    /\ mpc = "daemon"
    /\ mpc' = "health"
    /\ hc' = 0
    /\ UNCHANGED <<tries, qi, connected, mexc, okstarts, iters, clientvars, racevars>>

\* One iteration of check_kismet_running's loop: the daemon answers with a
\* status object holding the device count (return True), or the answer lacks
\* it, or the call raises (swallowed) and the loop goes on.
check_kismet_running_attempt ==
    /\ mpc = "health"
    /\ hc < HealthAttempts
    /\ hc' = hc + 1
    /\ \/ mpc' = "poll" /\ okstarts' = okstarts + 1
       \/ UNCHANGED <<mpc, okstarts>>
    /\ UNCHANGED <<tries, qi, connected, mexc, iters, clientvars, racevars>>

\* Variant: gives up one attempt earlier.
give_up_at_limit(t) == t >= RetryLimit

\* "if tries > 5: break"
give_up(t) == t > RetryLimit

\* check_kismet_running returned False: leave the loop or try again.
main_not_running ==
    /\ mpc = "health"
    /\ hc = HealthAttempts
    /\ mpc' = IF give_up(tries) THEN "returned" ELSE "loop"
    /\ UNCHANGED <<tries, hc, qi, connected, mexc, okstarts, iters, clientvars,
                   racevars>>

\* Top of the polling loop: connected = check_connection(conn_if_name)
main_check_connection ==
    /\ mpc = "poll"
    /\ connected' \in BOOLEAN
    /\ qi' = 0
    /\ mpc' = "query"
    /\ UNCHANGED <<tries, hc, mexc, okstarts, iters, clientvars, racevars>>

\* What main does with the outcome of a query: only KismetRequestException
\* is caught (break, then restart); anything else propagates.
query_handler(exc) ==
    IF exc = NoExc THEN "continue"
    ELSE IF exc = KismetRequestException THEN "restart"
    ELSE "propagate"

\* One of the six smart_device_list calls made while the data dict is built.
main_query ==
    /\ mpc = "query"
    /\ qi < QueriesPerRound
    /\ \E exc \in QueryOutcomes :
         CASE query_handler(exc) = "continue" ->
                /\ qi' = qi + 1
                /\ mpc' = IF qi + 1 = QueriesPerRound THEN "send" ELSE "query"
                /\ UNCHANGED mexc
           [] query_handler(exc) = "restart" ->
                /\ mpc' = "restart" /\ UNCHANGED <<qi, mexc>>
           [] OTHER ->
                /\ MainCrash(exc) /\ UNCHANGED qi
    /\ UNCHANGED <<tries, hc, connected, okstarts, iters, clientvars, racevars>>

\* Forward the data (failures of requests.post are swallowed), sleep 300 s.
main_send ==
    /\ mpc = "send"
    /\ mpc' = "poll"
    /\ UNCHANGED <<tries, hc, qi, connected, mexc, okstarts, iters, clientvars,
                   racevars>>

\* After the break: log and go round the outer loop again.
main_restart ==
    /\ mpc = "restart"
    /\ mpc' = "loop"
    /\ UNCHANGED <<tries, hc, qi, connected, mexc, okstarts, iters, clientvars,
                   racevars>>

NextMain ==
    \/ main_loop
    \/ main_ifaces
    \/ main_start_daemon
    \/ check_kismet_running_attempt
    \/ main_not_running
    \/ main_check_connection
    \/ main_query
    \/ main_send
    \/ main_restart

SpecMain == InitMain /\ [][NextMain]_vars

\* ======================================= two clients, one cache file path
\* Each client persists its cookie as __update_session does:
\*   lcachef = open(path, "w")   truncates the file, position 0
\*   lcachef.write(cookie)       goes into the file object's buffer
\*   lcachef.close()             flushes the buffer at the object's position
\* The file is not locked, so the steps of the two clients interleave freely.
Bytes(c, n) == [i \in 1..n |-> c]

InitRace ==
    /\ ClientIdle
    /\ MainOff
    /\ \E n \in 0..MaxCookieLen : disk = Bytes("o", n)
    /\ wpc = [w \in Writers |-> "ready"]
    /\ \E n1 \in 1..MaxCookieLen, n2 \in 1..MaxCookieLen :
         wcookie = [w \in Writers |-> IF w = 1 THEN Bytes("a", n1) ELSE Bytes("b", n2)]

\* write(2) of data at position 0 of a file holding old.
write_at_start(old, data) ==
    IF Len(data) >= Len(old) THEN data
    ELSE data \o SubSeq(old, Len(data) + 1, Len(old))

writer_open(w) ==
    /\ wpc[w] = "ready"
    /\ disk' = <<>>
    /\ wpc' = [wpc EXCEPT ![w] = "open"]
    /\ UNCHANGED <<wcookie, clientvars, mainvars>>

writer_write(w) ==
    /\ wpc[w] = "open"
    /\ wpc' = [wpc EXCEPT ![w] = "written"]
    /\ UNCHANGED <<disk, wcookie, clientvars, mainvars>>

writer_close(w) ==
    /\ wpc[w] = "written"
    /\ disk' = write_at_start(disk, wcookie[w])
    /\ wpc' = [wpc EXCEPT ![w] = "closed"]
    /\ UNCHANGED <<wcookie, clientvars, mainvars>>

NextRace ==
    \/ \E w \in Writers : writer_open(w)
    \/ \E w \in Writers : writer_write(w)
    \/ \E w \in Writers : writer_close(w)

SpecRace == InitRace /\ [][NextRace]_vars

\* ================================================================ claims
\* Helpers to state the claims.
JsonTransport == Transport(op, fields) \in {"get_json", "post_json"}
HelperTransport ==
    Transport(op, fields) \in {"get_json", "get_string", "post_json", "post_string"}
AllValid(b) == \A i \in 1..Len(b) : b[i] \in ValidLines
Decoded(b) == [i \in 1..Len(b) |-> JsonLoads(b[i])]
\* A stream-mode call on a 200 response has come to its end.
StreamCallDone == pc = "done" /\ JsonTransport /\ stream /\ status = 200

\* C1 (as claimed): a stream-mode call with a callback on a 200 response of
\* K valid lines invokes the callback once per line, in line order, and
\* the sequence returned to the caller is empty.
C1_CallbackStreamReturnsEmpty ==
    (StreamCallDone /\ callback /\ AllValid(body) /\ ~cbraise)
        => /\ raised = NoExc
           /\ cblog = Decoded(body)
           /\ result.kind = "list"
           /\ result.list = <<>>

\* C2: a stream-mode call without a callback on a 200 response of K valid
\* lines returns exactly K elements, the i-th being the decoded i-th line
\* (an array line stays one element), and invokes no callback.
C2_NoCallbackStreamReturnsAll ==
    (StreamCallDone /\ ~callback /\ AllValid(body))
        => /\ raised = NoExc
           /\ result.kind = "list"
           /\ Len(result.list) = Len(body)
           /\ result.list = Decoded(body)
           /\ cblog = <<>>

C2_Witness ==
    /\ StreamCallDone /\ ~callback /\ op = "smart_device_list"
    /\ body = <<"[1,2]", "null", "{\"a\":1}">>
    /\ result.list = <<"list(1,2)", None, "dict(a=1)">>

\* C3 (as claimed): when exactly one line of a stream-mode 200 response
\* fails to parse, at any position, the call raises KismetRequestException,
\* returns nothing, and the callback has seen exactly the lines before it.
C3_MalformedLineRaisesRequestException ==
    (/\ StreamCallDone /\ body # <<>> /\ ~cbraise
     /\ body[Len(body)] = BadLine
     /\ AllValid(SubSeq(body, 1, Len(body) - 1)))
        => /\ raised = KismetRequestException
           /\ result = NoResult
           /\ cblog = IF callback THEN Decoded(SubSeq(body, 1, Len(body) - 1))
                                  ELSE <<>>

\* C4 (as claimed): whatever the operation, login and check_session
\* included, a 401 answer makes the call raise KismetLoginException carrying
\* 401 and leaves the cache file unmodified.
C4_Every401RaisesLogin ==
    (pc = "done" /\ status = LoginStatus)
        => /\ raised = KismetLoginException
           /\ rcode = LoginStatus
           /\ file = file0

\* C4 (amended): on a 401 answer every operation that goes through a
\* transport helper raises KismetLoginException carrying 401, while login
\* and check_session raise nothing and return False; in every case the call
\* leaves the cache file unmodified.
C4_401RaisesLoginExceptSessionOps ==
    (pc = "done" /\ status = LoginStatus)
        => /\ file = file0
           /\ wrote = "no"
           /\ IF op \in SessionOps
              THEN raised = NoExc /\ result = BoolResult(FALSE)
              ELSE /\ raised = KismetLoginException
                   /\ rcode = LoginStatus
                   /\ result = NoResult

C4_Witness ==
    /\ pc = "done" /\ status = LoginStatus /\ op = "raise_alert"
    /\ raised = KismetLoginException /\ rcode = 401
    /\ setcookie = "k2" /\ file = "k1" /\ file0 = "k1"

\* C5: once __update_session has run on a 200 response that carried a new
\* non-empty KISMET cookie, and writing the file did not fail, the cache
\* file holds exactly that cookie, whatever cookie was loaded at construction.
C5_FileHoldsNewCookie ==
    (/\ pc \in {"stream", "object", "return", "done"}
     /\ status = OkStatus
     /\ setcookie \notin {NoCookie, ""}
     /\ wrote \notin {"openfail", "truncated"})
        => /\ wrote = "ok"
           /\ file = setcookie

C5_Witness ==
    /\ pc = "done" /\ status = OkStatus /\ op = "system_status"
    /\ jar.loaded = "k1" /\ file0 = "k1"
    /\ setcookie = "k2" /\ file = "k2"

\* C6: in every transport helper a status other than 200 and 401 raises
\* KismetRequestException carrying that status, after exactly one request,
\* with nothing decoded, no callback invoked and the cache file not written.
C6_OtherStatusRaisesRequestException ==
    (pc = "done" /\ HelperTransport /\ status \notin {0, OkStatus, LoginStatus})
        => /\ raised = KismetRequestException
           /\ rcode = status
           /\ nreq = 1
           /\ body = <<>> /\ ret = <<>>
           /\ cblog = <<>>
           /\ wrote = "no" /\ file = file0
           /\ result = NoResult

C6_Witness ==
    /\ pc = "done" /\ op = "smart_device_list" /\ callback
    /\ status = 404 /\ rcode = 404 /\ raised = KismetRequestException
    /\ setcookie = "k1" /\ file0 = "k2"

\* C7 (as claimed): whatever the operation, login and check_session
\* included, a network-level failure is reported as KismetRequestException
\* with rcode -1, a value no HTTP status equals.
C7_NetworkFailureIsRequestException ==
    (pc = "done" /\ nreq = 1 /\ status = 0)
        => /\ raised = KismetRequestException
           /\ rcode = NetFailCode
           /\ NetFailCode \notin Statuses

\* C8: in non-stream mode a 200 response holding one valid JSON document
\* yields a one-element sequence: the decoded document when there is no
\* callback; with a callback, the callback is invoked exactly once with it.
C8_NonStreamOneElement ==
    (/\ pc \in {"return", "done"} /\ JsonTransport /\ ~stream
     /\ status = OkStatus /\ AllValid(body) /\ ~cbraise)
        => /\ raised = NoExc
           /\ Len(body) = 1
           /\ Len(ret) = 1
           /\ IF callback
              THEN cblog = <<JsonLoads(body[1])>>
              ELSE ret[1] = JsonLoads(body[1]) /\ cblog = <<>>

C8_Witness ==
    /\ pc = "done" /\ op = "__get_json_url" /\ ~stream /\ callback
    /\ body = <<"[1,2]">> /\ cblog = <<"list(1,2)">> /\ Len(result.list) = 1

\* Reading a posted body back: the positions of key k, and the list of
\* strings that follows it.
KeyAt(text, k) ==
    {i \in 1..(Len(text) - 1) : text[i] = S(k) /\ text[i + 1] = P(":")}
BodyHasKey(text, k) == KeyAt(text, k) # {}
BodyListValue(text, k) ==
    LET i == CHOOSE n \in KeyAt(text, k) : TRUE
        e == CHOOSE n \in (i + 3)..Len(text) :
                 /\ text[n] = P("]")
                 /\ \A m \in (i + 3)..(n - 1) : text[m] # P("]")
        inner == SelectSeq(SubSeq(text, i + 3, e - 1), LAMBDA tk : tk.t = "str")
    IN [n \in 1..Len(inner) |-> inner[n].s]
BodyCarries(text, k, arg) ==
    /\ BodyHasKey(text, k) <=> ~arg.none
    /\ ~arg.none =>
         /\ Cardinality(KeyAt(text, k)) = 1
         /\ text[(CHOOSE n \in KeyAt(text, k) : TRUE) + 2] = P("[")
         /\ BodyListValue(text, k) = arg.v

\* C9: the body posted by smart_device_list and dot11_access_points has the
\* key "fields" iff fields is not None and "regex" iff regex is not None,
\* each with the argument unchanged; an empty list is sent as an empty list.
C9_QueryKeysIffGiven ==
    (op \in {"smart_device_list", "dot11_access_points"} /\ nreq = 1)
        => /\ method = "POST"
           /\ BodyCarries(posted, "fields", fields)
           /\ BodyCarries(posted, "regex", regex)

C9_Witness ==
    /\ op = "dot11_access_points" /\ nreq = 1
    /\ fields = ListArg(<<>>) /\ regex = NoArg
    /\ BodyHasKey(posted, "fields") /\ ~BodyHasKey(posted, "regex")
    /\ BodyListValue(posted, "fields") = <<>>

\* C10: a single-entity lookup answered by 200 with one JSON document
\* returns the decoded object itself, not a one-element sequence.
C10_SingleEntityUnwrapped ==
    (pc = "done" /\ op \in SingleOps /\ status = OkStatus /\ AllValid(body))
        => /\ raised = NoExc
           /\ result.kind = "obj"
           /\ result.obj = JsonLoads(body[1])

C10_Witness ==
    /\ pc = "done" /\ op = "device_by_key" /\ ~fields.none
    /\ body = <<"{\"a\":1}">> /\ result = ObjResult("dict(a=1)")

\* What a call answered by 200 with the valid body b hands back, read off
\* the operation, the callback flag and the body alone.
OutcomeOf(o, cb, b) ==
    CASE o \in SessionOps \cup CmdOps -> BoolResult(TRUE)
      [] o \in StringHelperOps -> ContentResult
      [] o \in SingleOps -> ObjResult(JsonLoads(b[1]))
      [] OTHER -> ListResult([i \in 1..Len(b) |-> IF cb THEN None ELSE JsonLoads(b[i])])

\* C11: cache I/O failures never change the outcome: a client constructed
\* on a missing or unreadable cache file holds no loaded cookie, a failed
\* write in __update_session raises nothing and the call goes on, and the
\* value returned for a 200 response is the one the operation, callback and
\* body determine, whether the write succeeded or failed.
C11_CacheFailureKeepsOutcome ==
    /\ sessioncache \in {"nofile", "unreadable"} => jar.loaded = NoCookie
    /\ wrote \in {"openfail", "truncated"} =>
         /\ pc \in {"stream", "object", "return", "done"}
         /\ raised \in {NoExc, KismetRequestException, AttributeError, CallbackError}
         /\ raised # NoExc => body # <<>>
    /\ (pc = "done" /\ status = OkStatus /\ AllValid(body) /\ ~cbraise) =>
         /\ raised = NoExc
         /\ result = OutcomeOf(op, callback, body)

C11_Witness ==
    /\ pc = "done" /\ sessioncache = "unreadable" /\ wrote = "truncated"
    /\ op = "smart_device_list" /\ ~callback /\ raised = NoExc
    /\ result = ListResult(<<"dict(a=1)">>)

\* C12 (as claimed): a 200 response that carries no session cookie leaves
\* the cache file unmodified (I/O failures aside), so a value stored there
\* by another client is never overwritten with the cookie this client
\* loaded at construction.
C12_NoCookieNoWrite ==
    (status = OkStatus /\ setcookie = NoCookie /\ wrote \notin {"openfail", "truncated"})
        => file = file0

\* C14: on a 200 response __update_session runs before any part of the
\* body is decoded and before any callback; so when decoding fails or the
\* callback raises, the cache file already holds the cookie of that response
\* (provided writing it did not fail).
C14_UpdateBeforeDecode ==
    /\ (body # <<>> \/ cblog # <<>> \/ ret # <<>>) => wrote # "no"
    /\ (/\ pc = "done" /\ status = OkStatus /\ raised # NoExc
        /\ setcookie \notin {NoCookie, ""}
        /\ wrote \notin {"openfail", "truncated"})
         => wrote = "ok" /\ file = setcookie

C14_Witness ==
    /\ pc = "done" /\ status = OkStatus /\ raised = CallbackError
    /\ Len(body) = 1 /\ setcookie = "k2" /\ file0 = "k1" /\ file = "k2"

\* C16 (as claimed): read fetches, the parameterized POST queries among
\* them, are sent with the 60-second timeout and only the *.cmd posts with
\* the short one.
C16_TimeoutByKind ==
    (nreq = 1 /\ op \notin JsonHelperOps \cup StringHelperOps)
        => IF op \in CmdOps THEN timeout = PostJsonTimeout
                            ELSE timeout = ReadTimeout

\* C17: an exception raised by the callback leaves the call unchanged (not
\* as KismetRequestException) and ends it at once: the raising invocation is
\* the last one and belongs to the last line consumed.
C17_CallbackExceptionPropagates ==
    cbraise
        => /\ pc = "done"
           /\ raised = CallbackError
           /\ result = NoResult
           /\ callback
           /\ cblog = Decoded(body)

C17_Witness ==
    /\ cbraise /\ op = "device_list" /\ pc = "done"
    /\ body = <<"null", "[1,2]">> /\ cblog = <<None, "list(1,2)">>

\* C18: the Boolean command operations never return False: they return
\* True on 200 and otherwise raise KismetLoginException or
\* KismetRequestException.
C18_CommandsNeverReturnFalse ==
    (pc = "done" /\ op \in CmdOps)
        => IF raised = NoExc
           THEN result = BoolResult(TRUE) /\ status = OkStatus
           ELSE /\ raised \in {KismetLoginException, KismetRequestException}
                /\ result = NoResult
                /\ status # OkStatus

C18_Witness ==
    /\ pc = "done" /\ op = "config_datasource_set_hop_channels"
    /\ result = BoolResult(TRUE) /\ wrote = "openfail"

\* C13 (as claimed): none of the client's error kinds ends the program:
\* main never terminates by KismetLoginException or KismetRequestException.
C13_ClientErrorsDoNotEndMain ==
    mpc = "crashed" => mexc \notin {KismetLoginException, KismetRequestException}

\* C19: main returns normally only after a health check that failed while
\* tries > 5; tries counts every outer-loop iteration and is never reset, so
\* successful starts use up the same budget; from a fresh run with no
\* successful start, main returns at the 6th attempt.
C19_ReturnsAfterSixthFailure ==
    /\ tries = iters
    /\ mpc = "returned" =>
         /\ tries > RetryLimit
         /\ hc = HealthAttempts
         /\ okstarts < tries
         /\ okstarts = 0 => tries = RetryLimit + 1

C19_Witness ==
    mpc = "returned" /\ okstarts = 5 /\ tries = 6

\* C15 (as claimed): once both clients have finished persisting, the file
\* holds exactly the complete cookie of one of them: never an empty file,
\* never a mixture, also when the cookies differ in length.
C15_LastWriterWins ==
    (\A w \in Writers : wpc[w] = "closed")
        => \E w \in Writers : disk = wcookie[w]

====
